---- MODULE Spec2Model ----
(***************************************************************************)
(* A model of basal.io/x/dex (Session.Tail, Session.Stream) and of         *)
(* basal.io/x/trigger (Predicate, Predicate2, Below, Above, Arrow, Delta,  *)
(* Any, All).                                                              *)
(*                                                                         *)
(* Time is counted in seconds.  An Entry is [Time, Value, Dir]; the Raw    *)
(* field of dex.Entry is never written by the code and is left out.  A raw *)
(* upstream record (entryJson) is [WT, Trend, Value], WT being the         *)
(* sequence of characters of the upstream's encoded timestamp.             *)
(***************************************************************************)
EXTENDS Integers, Sequences, FiniteSets, TLC

VARIABLES
    pc,              \* position of Session.Stream / Session.Tail
    begin,           \* Stream: begin (the cursor)
    eta,             \* Stream: eta
    penalty,         \* Stream: penalty
    total,           \* Stream: total
    now,             \* the wall clock, time.Now()
    ents,            \* Stream: ents, the value returned by Tail
    body,            \* Tail: ejs, the unmarshalled records, where the parse is a step of its own
    idx,             \* Stream: i of the range loop (1-based)
    newest,          \* Stream: newest, as an index into ents (0 is nil)
    out,             \* the events sent on channel out, in order
    closed,          \* how many times close(out) ran
    token,           \* Session.token
    tries,           \* Tail: tries
    reqToken,        \* the sessionID carried by the latest request
    attempts,        \* requests made so far by the call of Tail in progress
    sent,            \* events sent on out by the loop iteration in progress
    waited,          \* the penalty slept by the loop iteration in progress
    badAt,           \* positions of the malformed records in the body Tail parsed in this iteration
    emptyRun,        \* completed polls without a new event since the last emitting one
    ascending,       \* every batch returned by Tail so far was strictly ascending
    err,             \* Stream: err, the error returned by Tail (TRUE: not nil)
    cancelRequested, \* the environment asked the poller to stop
    pollsLeft,       \* calls of Tail the run may still make
    expiredLeft,     \* "expired" answers the upstream may still give
    cancelsLeft,     \* cancellation requests the environment may still make
    trig,            \* the trigger tree
    lastObs,         \* the last two events passed to Observe, newest last
    obsErr           \* the error returned by the latest Observe on the root

pollerVars == <<pc, begin, eta, penalty, total, now, ents, body, idx, newest, out,
                closed, token, tries, reqToken, attempts, sent, waited, badAt,
                emptyRun, ascending, err, cancelRequested, pollsLeft,
                expiredLeft, cancelsLeft>>
triggerVars == <<trig, lastObs, obsErr>>
vars == <<pollerVars, triggerVars>>

(***************************************************************************)
(* Bounds of the model.                                                    *)
(***************************************************************************)
MaxBatch == 2       \* records in one response body
MaxOut == 3         \* events sent on the channel
MaxPolls == 12      \* calls of Tail in a long run (no expiry, no cancellation)
MaxShortPolls == 2  \* calls of Tail in a short run
MaxAttempts == 7    \* "expired" answers given in a short run

(***************************************************************************)
(* Program constants.                                                      *)
(***************************************************************************)
None == 0
DoubleUp == 1
SingleUp == 2
FortyFiveUp == 3
Flat == 4
FortyFiveDown == 5
SingleDown == 6
DoubleDown == 7
NotComputable == 8
RateOutOfRange == 9
FiveMinutes == 300
PenaltyCap == 10
Second == 1
GiveUpTries == 5
MsecPerSec == 1000

Min(a, b) == IF a < b THEN a ELSE b

(***************************************************************************)
(* Session.Tail: the parse of one response body.                           *)
(***************************************************************************)
Digits == <<"0", "1", "2", "3", "4", "5", "6", "7", "8", "9">>

IsDigit(c) == \E d \in 1..10 : Digits[d] = c

DigitVal(c) == (CHOOSE d \in 1..10 : Digits[d] = c) - 1

\* The first ")" of w at or after position p; 0 when there is none.
NextClose(w, p) ==
    IF \E q \in p..Len(w) : w[q] = ")"
    THEN CHOOSE q \in p..Len(w) : w[q] = ")" /\ \A r \in p..(q - 1) : w[r] /= ")"
    ELSE 0

\* datePat.FindStringSubmatch(w) for datePat = .*\(([^)]+)\).* : the leading
\* greedy .* takes the last "(" that is followed by one or more characters
\* other than ")" and then a ")".  The result is <<>> (nil) or
\* <<the whole match, the group>>.
FindStringSubmatch(w) ==
    LET opens == {p \in 1..Len(w) : w[p] = "(" /\ NextClose(w, p + 1) > p + 1}
    IN  IF opens = {} THEN <<>>
        ELSE LET p == CHOOSE x \in opens : \A y \in opens : y <= x
             IN  <<w, SubSeq(w, p + 1, NextClose(w, p + 1) - 1)>>

RECURSIVE DecimalValue(_)
DecimalValue(s) ==
    IF s = <<>> THEN 0
    ELSE 10 * DecimalValue(SubSeq(s, 1, Len(s) - 1)) + DigitVal(s[Len(s)])

\* strconv.ParseInt(s, 10, 64): an optional sign, then one or more digits.
ParseInt(s) ==
    LET signed == s /= <<>> /\ s[1] \in {"+", "-"}
        digits == IF signed THEN Tail(s) ELSE s
    IN  IF digits = <<>> \/ \E k \in 1..Len(digits) : ~IsDigit(digits[k])
        THEN [err |-> TRUE, val |-> 0]
        ELSE [err |-> FALSE,
              val |-> IF signed /\ s[1] = "-" THEN 0 - DecimalValue(digits)
                      ELSE DecimalValue(digits)]

\* Go's integer division truncates toward zero.
GoDiv(a, b) == IF a >= 0 THEN a \div b ELSE 0 - ((0 - a) \div b)

\* numToDir[n]: a lookup in a Go map, which yields the zero value of Dir
\* (None) for a key that is not in the map.
numToDir(n) ==
    IF n \in None..RateOutOfRange THEN n ELSE None

\* Lines 267-275 for one record: whether its timestamp fails to parse.
RecordFails(ej) ==
    LET matches == FindStringSubmatch(ej.WT)
    IN  matches = <<>> \/ Len(matches) /= 2 \/ ParseInt(matches[2]).err

\* Lines 277-280 for one record.
EntryOf(ej) ==
    LET msecs == ParseInt(FindStringSubmatch(ej.WT)[2]).val
    IN  [Time |-> GoDiv(msecs, MsecPerSec), Value |-> ej.Value,
         Dir |-> numToDir(ej.Trend)]

\* ParseEntries as it would be if the failing return handed back the
\* entries parsed so far instead of nil.
ParseEntriesPartial(ejs) ==
    IF \E k \in 1..Len(ejs) : RecordFails(ejs[k])
    THEN LET bad == CHOOSE k \in 1..Len(ejs) :
                       RecordFails(ejs[k]) /\ \A m \in 1..(k - 1) : ~RecordFails(ejs[m])
         IN  [err |-> TRUE, ents |-> [j \in 1..(bad - 1) |-> EntryOf(ejs[bad - j])]]
    ELSE [err |-> FALSE,
          ents |-> [j \in 1..Len(ejs) |-> EntryOf(ejs[Len(ejs) - j + 1])]]

\* Lines 264-283: entries[len-i-1] is filled from ejs[i]; the first record
\* that fails makes Tail return (nil, err).
ParseEntries(ejs) ==
    IF \E k \in 1..Len(ejs) : RecordFails(ejs[k])
    THEN [err |-> TRUE, ents |-> <<>>]
    ELSE [err |-> FALSE,
          ents |-> [j \in 1..Len(ejs) |-> EntryOf(ejs[Len(ejs) - j + 1])]]

(***************************************************************************)
(* The inputs of the poller: what the upstream may answer.                 *)
(***************************************************************************)
\* Encoded timestamps: 1000 ms, 1500 ms and 2000 ms, one without
\* parentheses and one whose parenthesised text is not a number.
WT1000 == <<"/", "D", "(", "1", "0", "0", "0", ")", "/">>
WT1500 == <<"/", "D", "(", "1", "5", "0", "0", ")", "/">>
WT2000 == <<"/", "D", "(", "2", "0", "0", "0", ")", "/">>
WTNoParen == <<"/", "D", "/">>
WTNotNumber == <<"/", "D", "(", "x", ")", "/">>

GoodWTs == {WT1000, WT1500, WT2000}
BadWTs == {WTNoParen, WTNotNumber}

PollRecords == [WT : GoodWTs \cup BadWTs, Trend : {Flat}, Value : {100}]

RECURSIVE SeqsUpTo(_, _)
SeqsUpTo(S, n) ==
    IF n = 0 THEN {<<>>}
    ELSE LET shorter == SeqsUpTo(S, n - 1)
         IN  shorter \cup {Append(q, x) : q \in {r \in shorter : Len(r) = n - 1}, x \in S}

PollBodies == SeqsUpTo(PollRecords, MaxBatch)

\* Every body with what Tail makes of it.
PollAnswers == {[ejs |-> b, r |-> ParseEntries(b)] : b \in PollBodies}

Begins == {0, 1}
StartNow == 3

\* The runs explored: a long run in which the upstream never answers
\* "expired" and nobody cancels, and a short run with expiry and cancellation.
Runs == {[polls |-> MaxPolls, expired |-> 0, cancels |-> 0],
         [polls |-> MaxShortPolls, expired |-> MaxAttempts, cancels |-> 1]}

(***************************************************************************)
(* Session.Stream and Session.Tail as a state machine.                     *)
(***************************************************************************)
NoTrigger == [kind |-> "none"]

\* A pointer or an error is <<>> (nil) or <<x>>.
Nil == <<>>
Ref(e) == <<e>>

\* The locals of Stream(b, out) and the fields of the session at line 302,
\* before the first iteration.
PollerFields(b, run) ==
    /\ begin = b
    /\ now = StartNow
    /\ eta = StartNow
    /\ penalty = 0
    /\ total = 0
    /\ ents = <<>>
    /\ idx = 0
    /\ newest = 0
    /\ out = <<>>
    /\ closed = 0
    /\ token = 0
    /\ tries = 0
    /\ reqToken = 0
    /\ attempts = 0
    /\ sent = 0
    /\ waited = 0
    /\ badAt = {}
    /\ emptyRun = 0
    /\ ascending = TRUE
    /\ err = FALSE
    /\ cancelRequested = FALSE
    /\ pollsLeft = run.polls
    /\ expiredLeft = run.expired
    /\ cancelsLeft = run.cancels

\* Stream(b, out) at line 302, before its first iteration.
PollerAt(b, run) ==
    /\ pc = "loop"
    /\ body = <<>>
    /\ PollerFields(b, run)

Init ==
    /\ \E b \in Begins, run \in Runs : PollerAt(b, run)
    /\ trig = NoTrigger
    /\ lastObs = <<>>
    /\ obsErr = Nil

StrictlyAscending(es) ==
    \A k \in 1..(Len(es) - 1) : es[k].Time < es[k + 1].Time

\* time.Time.After
After(t, u) == t > u

\* IsNew as it would be with "not before" in place of "after".
IsNewOrSame(e, cursor) == ~(e.Time < cursor)

\* Line 326: whether an entry of the batch is sent.
IsNew(e, cursor) == After(e.Time, cursor)

\* NextPenalty as it would be without the comparison with the cap.
NextPenaltyNoCap(p) == p + Second

\* Lines 311-313.
NextPenalty(p) == IF p < PenaltyCap * Second THEN p + Second ELSE p

\* Line 243: tries++; tries == 5.
GivesUp(t) == t = GiveUpTries

\* A return of Tail to line 318 of Stream: "return nil, err" (e is TRUE, es
\* is <<>>) or "return entries, nil".
TailReturn(e, es) ==
    /\ pc' = "returned"
    /\ err' = e
    /\ ents' = es

\* Lines 303-304: the top of the loop.
StreamLoop ==
    /\ pc = "loop"
    /\ pc' = IF After(eta, now) THEN "etaWait" ELSE "penaltyWait"
    /\ UNCHANGED <<begin, eta, penalty, total, now, ents, idx, newest, out,
                   closed, token, tries, reqToken, attempts, sent, waited,
                   badAt, emptyRun, ascending, err, cancelRequested,
                   pollsLeft, expiredLeft, cancelsLeft, triggerVars, body>>

\* StreamEtaWake as it would be if the sleep returned at once and the loop
\* started over.
StreamEtaWakeEarly ==
    /\ pc = "etaWait"
    /\ pc' = "loop"
    /\ UNCHANGED <<begin, eta, penalty, total, now, ents, idx, newest, out,
                   closed, token, tries, reqToken, attempts, sent, waited,
                   badAt, emptyRun, ascending, err, cancelRequested,
                   pollsLeft, expiredLeft, cancelsLeft, triggerVars, body>>

\* Lines 305-306: time.Sleep(eta.Sub(now)) returns.
StreamEtaWake ==
    /\ pc = "etaWait"
    /\ now' = eta
    /\ pc' = "penaltyWait"
    /\ UNCHANGED <<begin, eta, penalty, total, ents, idx, newest, out,
                   closed, token, tries, reqToken, attempts, sent, waited,
                   badAt, emptyRun, ascending, err, cancelRequested,
                   pollsLeft, expiredLeft, cancelsLeft, triggerVars, body>>

\* Lines 308-318: time.Sleep(penalty) returns, the penalty grows, and Tail
\* is called.
StreamPenaltyWake ==
    /\ pc = "penaltyWait"
    /\ pollsLeft > 0
    /\ pollsLeft' = pollsLeft - 1
    /\ now' = now + penalty
    /\ total' = total + penalty
    /\ waited' = penalty
    /\ penalty' = NextPenalty(penalty)
    /\ pc' = "request"
    /\ UNCHANGED <<begin, eta, ents, idx, newest, out, closed, token, tries,
                   reqToken, attempts, sent, badAt, emptyRun, ascending,
                   err, cancelRequested, expiredLeft, cancelsLeft,
                   triggerVars, body>>

\* Lines 210-227: one turn of Tail's loop builds the request from s.token,
\* sets tries to 0 and sends the request.  The minutes and maxCount of the
\* request are not kept: the upstream answers what it likes whatever they are.
TailIssue ==
    /\ pc = "request"
    /\ tries' = 0
    /\ reqToken' = token
    /\ attempts' = attempts + 1

\* Lines 227-230, 249-252, 259-262: client.Do fails, the body cannot be read,
\* or the body is not a JSON list of records.
TailTransportError ==
    /\ TailIssue
    /\ TailReturn(TRUE, <<>>)
    /\ UNCHANGED <<begin, eta, penalty, total, now, idx, newest, out, closed, token,
                   sent, waited, badAt, emptyRun, ascending, cancelRequested,
                   pollsLeft, expiredLeft, cancelsLeft, triggerVars, body>>

\* Lines 232-234 and 249-284: the status is below 400 and the body holds
\* the records ejs.
TailBody ==
    /\ TailIssue
    /\ \E a \in PollAnswers :
          /\ Len(out) + Cardinality({k \in 1..Len(a.r.ents) :
                                        IsNew(a.r.ents[k], begin)}) <= MaxOut
          /\ badAt' = {k \in 1..Len(a.ejs) : a.ejs[k].WT \in BadWTs}
          /\ TailReturn(a.r.err, a.r.ents)
          /\ ascending' = (ascending /\ StrictlyAscending(a.r.ents))
    /\ UNCHANGED <<begin, eta, penalty, total, now, idx, newest, out, closed,
                   token, sent, waited,
                   emptyRun, cancelRequested, pollsLeft, expiredLeft,
                   cancelsLeft, triggerVars, body>>

\* Lines 232-236: the status is 400 or more; Tail assumes the token expired.
TailExpired ==
    /\ TailIssue
    /\ expiredLeft > 0
    /\ expiredLeft' = expiredLeft - 1
    /\ pc' = "refresh"
    /\ UNCHANGED <<begin, eta, penalty, total, now, ents, idx, newest, out,
                   closed, token, sent, waited, badAt, emptyRun, ascending,
                   err, cancelRequested, pollsLeft, cancelsLeft,
                   triggerVars, body>>

\* Lines 238-246 with refresh (188-196) and login (356-383): the login
\* succeeds and stores a new token (a failed save is only logged); then
\* tries++ and the comparison with 5.
TailRefreshOK ==
    /\ pc = "refresh"
    /\ token' = token + 1
    /\ tries' = tries + 1
    /\ IF GivesUp(tries')
       THEN TailReturn(TRUE, <<>>)
       ELSE pc' = "request" /\ UNCHANGED <<ents, err>>
    /\ UNCHANGED <<begin, eta, penalty, total, now, idx, newest, out, closed,
                   reqToken, attempts, sent, waited, badAt, emptyRun,
                   ascending, cancelRequested, pollsLeft, expiredLeft,
                   cancelsLeft, triggerVars, body>>

\* TailRefreshFail as it would be if Tail went on to its next request after
\* a failed login.
TailRefreshFailRetries ==
    /\ pc = "refresh"
    /\ pc' = "request"
    /\ UNCHANGED <<begin, eta, penalty, total, now, ents, idx, newest, out,
                   closed, token, tries, reqToken, attempts, sent, waited,
                   badAt, emptyRun, ascending, err, cancelRequested,
                   pollsLeft, expiredLeft, cancelsLeft, triggerVars, body>>

\* Lines 238-240: the login fails and Tail returns its error.
TailRefreshFail ==
    /\ pc = "refresh"
    /\ TailReturn(TRUE, <<>>)
    /\ UNCHANGED <<begin, eta, penalty, total, now, idx, newest, out, closed, token,
                   tries, reqToken, attempts, sent, waited, badAt, emptyRun,
                   ascending, cancelRequested, pollsLeft, expiredLeft,
                   cancelsLeft, triggerVars, body>>

\* StreamFail as it would be without the deferred close(out).
StreamFailKeepsOpen ==
    /\ pc = "returned"
    /\ err
    /\ pc' = "done"
    /\ UNCHANGED <<begin, eta, penalty, total, now, ents, idx, newest, out,
                   closed, token, tries, reqToken, attempts, sent, waited,
                   badAt, emptyRun, ascending, err, cancelRequested,
                   pollsLeft, expiredLeft, cancelsLeft, triggerVars, body>>

\* Lines 319-322 with the deferred close(out) of line 296: Tail returned an
\* error, Stream logs, returns and so closes out.
StreamFail ==
    /\ pc = "returned"
    /\ err
    /\ pc' = "done"
    /\ closed' = closed + 1
    /\ UNCHANGED <<begin, eta, penalty, total, now, ents, idx, newest, out,
                   token, tries, reqToken, attempts, sent, waited, badAt,
                   emptyRun, ascending, err, cancelRequested, pollsLeft,
                   expiredLeft, cancelsLeft, triggerVars, body>>

\* Lines 319 and 324-325: Tail returned entries; the range loop starts.
StreamRange ==
    /\ pc = "returned"
    /\ ~err
    /\ pc' = "range"
    /\ idx' = 1
    /\ newest' = 0
    /\ UNCHANGED <<begin, eta, penalty, total, now, ents, out, closed,
                   token, tries, reqToken, attempts, sent, waited, badAt,
                   emptyRun, ascending, err, cancelRequested, pollsLeft,
                   expiredLeft, cancelsLeft, triggerVars, body>>

\* Lines 325-329: an entry after begin is sent on out (the send completes
\* when the consumer receives it) and becomes newest.
StreamSend ==
    /\ pc = "range"
    /\ idx <= Len(ents)
    /\ IsNew(ents[idx], begin)
    /\ out' = Append(out, ents[idx])
    /\ sent' = sent + 1
    /\ newest' = idx
    /\ idx' = idx + 1
    /\ UNCHANGED <<pc, begin, eta, penalty, total, now, ents, closed, token,
                   tries, reqToken, attempts, waited, badAt, emptyRun,
                   ascending, err, cancelRequested, pollsLeft,
                   expiredLeft, cancelsLeft, triggerVars, body>>

\* Lines 325-326: an entry not after begin is passed over.
StreamSkip ==
    /\ pc = "range"
    /\ idx <= Len(ents)
    /\ ~IsNew(ents[idx], begin)
    /\ idx' = idx + 1
    /\ UNCHANGED <<pc, begin, eta, penalty, total, now, ents, newest, out,
                   closed, token, tries, reqToken, attempts, sent, waited,
                   badAt, emptyRun, ascending, err, cancelRequested,
                   pollsLeft, expiredLeft, cancelsLeft, triggerVars, body>>

\* Lines 332-341: the end of the range loop and of the iteration, whose
\* locals (ents, i, newest; Tail's tries) go out of scope.
StreamEndBatch ==
    /\ pc = "range"
    /\ idx > Len(ents)
    /\ IF newest /= 0
       THEN /\ begin' = ents[newest].Time
            /\ eta' = ents[newest].Time + FiveMinutes
            /\ penalty' = 0
            /\ total' = 0
            /\ emptyRun' = 0
       ELSE /\ emptyRun' = emptyRun + 1
            /\ UNCHANGED <<begin, eta, penalty, total>>
    /\ pc' = "loop"
    /\ ents' = <<>>
    /\ idx' = 0
    /\ newest' = 0
    /\ attempts' = 0
    /\ sent' = 0
    /\ waited' = 0
    /\ badAt' = {}
    /\ UNCHANGED <<now, out, closed, token, tries, reqToken, ascending,
                   err, cancelRequested, pollsLeft, expiredLeft,
                   cancelsLeft, triggerVars, body>>

\* The environment asks the poller to stop while it sleeps.  Stream (line
\* 288) takes no context, channel or flag through which it could learn of
\* the request, and time.Sleep cannot be interrupted: nothing reads it.
Cancel ==
    /\ pc \in {"etaWait", "penaltyWait"}
    /\ cancelsLeft > 0
    /\ cancelsLeft' = cancelsLeft - 1
    /\ cancelRequested' = TRUE
    /\ UNCHANGED <<pc, begin, eta, penalty, total, now, ents, idx, newest,
                   out, closed, token, tries, reqToken, attempts, sent,
                   waited, badAt, emptyRun, ascending, err, pollsLeft,
                   expiredLeft, triggerVars, body>>

Next ==
    \/ StreamLoop
    \/ StreamEtaWake
    \/ StreamPenaltyWake
    \/ TailTransportError
    \/ TailBody
    \/ TailExpired
    \/ TailRefreshOK
    \/ TailRefreshFail
    \/ StreamFail
    \/ StreamRange
    \/ StreamSend
    \/ StreamSkip
    \/ StreamEndBatch
    \/ Cancel

Spec == Init /\ [][Next]_vars

\* The scheduling of the poller: Stream is one goroutine that keeps running,
\* so each of its own steps is taken once it stays possible; a sleep
\* returns; the upstream answers every request and every login, one way or
\* another; the consumer receives what is offered on out, so a send
\* completes.  Nothing obliges the environment to cancel.
Fairness ==
    /\ WF_vars(StreamLoop)
    /\ WF_vars(StreamEtaWake)
    /\ WF_vars(StreamPenaltyWake)
    /\ WF_vars(TailTransportError \/ TailBody \/ TailExpired)
    /\ WF_vars(TailRefreshOK \/ TailRefreshFail)
    /\ WF_vars(StreamFail)
    /\ WF_vars(StreamRange)
    /\ WF_vars(StreamSend)
    /\ WF_vars(StreamSkip)
    /\ WF_vars(StreamEndBatch)

\* The runs explored for progress: a few polls, with expiry and a request
\* to cancel.
MaxLivePolls == 2
MaxLiveExpired == 1

LiveInit ==
    /\ \E b \in Begins :
          PollerAt(b, [polls |-> MaxLivePolls, expired |-> MaxLiveExpired,
                       cancels |-> 1])
    /\ trig = NoTrigger
    /\ lastObs = <<>>
    /\ obsErr = Nil

LiveSpec == LiveInit /\ [][Next]_vars /\ Fairness

(***************************************************************************)
(* Session.Tail alone: the parse of lines 264-283 applied to bodies of     *)
(* every order, with trend codes inside and outside the table numToDir.    *)
(***************************************************************************)
MaxTail == 3        \* records in one body handed to the parse

TailRecords ==
    [WT : GoodWTs \cup {WTNotNumber}, Trend : {Flat, 10, 0 - 1}, Value : {100}]

TailBodies == SeqsUpTo(TailRecords, MaxTail)

\* Tail at line 264: the response was read and unmarshalled into ejs.
TailInit ==
    /\ pc = "parse"
    /\ body \in TailBodies
    /\ PollerFields(0, [polls |-> 0, expired |-> 0, cancels |-> 0])
    /\ trig = NoTrigger
    /\ lastObs = <<>>
    /\ obsErr = Nil

\* Lines 264-283: the loop over ejs and the return.
TailParse ==
    /\ pc = "parse"
    /\ TailReturn(ParseEntries(body).err, ParseEntries(body).ents)
    /\ UNCHANGED <<begin, eta, penalty, total, now, body, idx, newest, out,
                   closed, token, tries, reqToken, attempts, sent, waited,
                   badAt, emptyRun, ascending, cancelRequested, pollsLeft,
                   expiredLeft, cancelsLeft, triggerVars>>

TailNext == TailParse

TailSpec == TailInit /\ [][TailNext]_vars

(***************************************************************************)
(* Package trigger.  A trigger is a tree of nodes:                         *)
(*   [kind |-> "predicate",  p, cur]        predicateTrigger               *)
(*   [kind |-> "predicate2", p, last, cur]  predicate2Trigger              *)
(*   [kind |-> "any", kids], [kind |-> "all", kids]                        *)
(*   [kind |-> "failing", name, bad, cur]   a Trigger implemented outside  *)
(*                                          the package                    *)
(* A pointer to an Entry is <<>> (nil) or <<e>>.  The function p of a leaf *)
(* is the closure built by Below, Above, Arrow or Delta, kept as the name  *)
(* of its constructor with the captured argument.  A call that may panic   *)
(* (a nil dereference) yields [panics, val].                               *)
(***************************************************************************)
\* Dir.Arrow
DirArrow(d) ==
    CASE d = None -> ""
      [] d = DoubleUp -> "⇈"
      [] d = SingleUp -> "↑"
      [] d = FortyFiveUp -> "⇗"
      [] d = Flat -> "→"
      [] d = FortyFiveDown -> "⇘"
      [] d = SingleDown -> "↓"
      [] d = DoubleDown -> "⇊"
      [] OTHER -> "?"

Predicate(p) == [kind |-> "predicate", p |-> p, cur |-> Nil]
Predicate2(p) == [kind |-> "predicate2", p |-> p, last |-> Nil, cur |-> Nil]
Below(bg) == Predicate([fn |-> "Below", arg |-> bg])
Above(bg) == Predicate([fn |-> "Above", arg |-> bg])
Arrow(dir) == Predicate([fn |-> "Arrow", arg |-> dir])
Delta(d) == Predicate2([fn |-> "Delta", arg |-> d])
\* Any and All (Any is an operator of module TLC: the constructors carry the
\* names of their types).
anyTrigger(trigger) == [kind |-> "any", kids |-> trigger]
allTrigger(trigger) == [kind |-> "all", kids |-> trigger]

\* An implementation of the interface Trigger from outside the package: its
\* Observe keeps the entry and returns the error errors.New(name) for the
\* entries whose Value is in bad; it is never active.
FailingTrigger(name, bad) ==
    [kind |-> "failing", name |-> name, bad |-> bad, cur |-> Nil]

\* fmt.Sprintf("%d", n)
FmtInt(n) == ToString(n)

\* The closure of Below.
BelowFn(bg, e) ==
    IF e.Value < bg THEN FmtInt(e.Value) \o " < " \o FmtInt(bg) ELSE ""

\* The closure of Above.
AboveFn(bg, e) ==
    IF e.Value > bg THEN FmtInt(e.Value) \o " > " \o FmtInt(bg) ELSE ""

\* The closure of Arrow: the glyph of the first listed direction equal to
\* the entry's.
ArrowFn(dir, e) ==
    IF \E k \in 1..Len(dir) : dir[k] = e.Dir
    THEN DirArrow(dir[CHOOSE k \in 1..Len(dir) :
                         dir[k] = e.Dir /\ \A m \in 1..(k - 1) : dir[m] /= e.Dir])
    ELSE ""

\* float64(dv) / d.Minutes() for a duration of secs seconds, as the fraction
\* num/den with den >= 0: a finite quotient has den > 0; a division by zero
\* gives +Inf (1/0), -Inf (-1/0) or NaN (0/0).  For the values modelled the
\* float64 quotient compares with a threshold as the exact fraction does.
FloatQuot(dv, secs) ==
    CASE secs > 0 -> [num |-> 60 * dv, den |-> secs]
      [] secs < 0 -> [num |-> 0 - 60 * dv, den |-> 0 - secs]
      [] OTHER -> [num |-> IF dv > 0 THEN 1 ELSE IF dv < 0 THEN 0 - 1 ELSE 0,
                   den |-> 0]

\* x < d and x > d for a float x = num/den and a whole threshold d; every
\* comparison with NaN is false.
FloatLess(x, d) == x.num < d * x.den
FloatMore(x, d) == x.num > d * x.den

Abs(n) == IF n < 0 THEN 0 - n ELSE n

\* fmt.Sprintf("%.1f", x): one decimal, the nearest tenth (the even one at
\* a tie).
FmtFloat1(x) ==
    IF x.den = 0
    THEN (IF x.num > 0 THEN "+Inf" ELSE IF x.num < 0 THEN "-Inf" ELSE "NaN")
    ELSE LET n == 10 * Abs(x.num)
             q == n \div x.den
             r == n % x.den
             tenths == IF 2 * r > x.den \/ (2 * r = x.den /\ q % 2 = 1)
                       THEN q + 1 ELSE q
         IN  (IF x.num < 0 THEN "-" ELSE "") \o ToString(tenths \div 10)
                 \o "." \o ToString(tenths % 10)

\* The closure of Delta, as it would be without the tests of the signs.
DeltaFnNoSign(d, e0, e1) ==
    LET delta == FloatQuot(e1.Value - e0.Value, e1.Time - e0.Time)
        dd == [num |-> d, den |-> 1]
    IN  IF FloatLess(delta, d)
        THEN "Delta(" \o FmtFloat1(delta) \o " < " \o FmtFloat1(dd)
        ELSE IF FloatMore(delta, 0) /\ d > 0 /\ FloatMore(delta, d)
        THEN "Delta(" \o FmtFloat1(delta) \o " > " \o FmtFloat1(dd)
        ELSE ""

\* The closure of Delta.
DeltaFn(d, e0, e1) ==
    LET delta == FloatQuot(e1.Value - e0.Value, e1.Time - e0.Time)
        dd == [num |-> d, den |-> 1]
    IN  IF FloatLess(delta, 0) /\ d < 0 /\ FloatLess(delta, d)
        THEN "Delta(" \o FmtFloat1(delta) \o " < " \o FmtFloat1(dd)
        ELSE IF FloatMore(delta, 0) /\ d > 0 /\ FloatMore(delta, d)
        THEN "Delta(" \o FmtFloat1(delta) \o " > " \o FmtFloat1(dd)
        ELSE ""

\* p.p(e) of a predicateTrigger.
Call1(p, e) ==
    CASE p.fn = "Below" -> BelowFn(p.arg, e)
      [] p.fn = "Above" -> AboveFn(p.arg, e)
      [] p.fn = "Arrow" -> ArrowFn(p.arg, e)

\* p.p(e0, e1) of a predicate2Trigger.
Call2(p, e0, e1) ==
    CASE p.fn = "Delta" -> DeltaFn(p.arg, e0, e1)

Panic == [panics |-> TRUE, val |-> FALSE]
Ret(v) == [panics |-> FALSE, val |-> v]

\* predicateTrigger.String: p.p(*p.cur)
PredicateString(t) ==
    IF t.cur = Nil THEN Panic ELSE Ret(Call1(t.p, t.cur[1]))

\* predicateTrigger.Active
PredicateActive(t) ==
    IF t.cur = Nil THEN Panic ELSE Ret(Call1(t.p, t.cur[1]) /= "")

\* predicate2Trigger.String
Predicate2String(t) ==
    IF t.last = Nil THEN Ret("") ELSE Ret(Call2(t.p, t.last[1], t.cur[1]))

\* predicate2Trigger.Active
Predicate2Active(t) ==
    IF t.last = Nil THEN Ret(FALSE)
    ELSE Ret(Call2(t.p, t.last[1], t.cur[1]) /= "")

RECURSIVE Active(_), AnyActiveFrom(_, _), AllActiveFrom(_, _, _)

\* anyTrigger.Active as it would be if it looked at its first child only.
AnyActiveFirstOnly(a, i) ==
    IF i > Len(a) THEN Ret(FALSE) ELSE Active(a[i])

\* anyTrigger.Active: the loop from child i on.
AnyActiveFrom(a, i) ==
    IF i > Len(a) THEN Ret(FALSE)
    ELSE LET r == Active(a[i])
         IN  IF r.panics THEN Panic
             ELSE IF r.val THEN Ret(TRUE)
             ELSE AnyActiveFrom(a, i + 1)

\* allTrigger.Active: the loop from child i on; Go's && does not call
\* t.Active() once active is false.
AllActiveFrom(a, i, active) ==
    IF i > Len(a) THEN Ret(active)
    ELSE IF ~active THEN AllActiveFrom(a, i + 1, FALSE)
    ELSE LET r == Active(a[i])
         IN  IF r.panics THEN Panic
             ELSE AllActiveFrom(a, i + 1, r.val)

\* Trigger.Active
Active(t) ==
    CASE t.kind = "predicate" -> PredicateActive(t)
      [] t.kind = "predicate2" -> Predicate2Active(t)
      [] t.kind = "any" -> AnyActiveFrom(t.kids, 1)
      [] t.kind = "all" -> AllActiveFrom(t.kids, 1, TRUE)
      [] t.kind = "failing" -> Ret(FALSE)

\* strings.Join(strs, sep)
RECURSIVE Join(_, _)
Join(strs, sep) ==
    IF strs = <<>> THEN ""
    ELSE IF Len(strs) = 1 THEN strs[1]
    ELSE strs[1] \o sep \o Join(Tail(strs), sep)

RECURSIVE String(_), ActiveStrings(_, _), AllStrings(_, _)

\* ActiveStrings as it would be without the test of a[i].Active().
AllStrings(a, i) ==
    IF i > Len(a) THEN Ret(<<>>)
    ELSE LET s == String(a[i])
             rest == AllStrings(a, i + 1)
         IN  IF s.panics \/ rest.panics THEN Panic
             ELSE Ret(<<s.val>> \o rest.val)

\* Lines 45-50 and 73-78 of trigger.go: strs, the loop from child i on.
ActiveStrings(a, i) ==
    IF i > Len(a) THEN Ret(<<>>)
    ELSE LET act == Active(a[i])
         IN  IF act.panics THEN Panic
             ELSE LET rest == ActiveStrings(a, i + 1)
                  IN  IF ~act.val THEN rest
                      ELSE LET s == String(a[i])
                           IN  IF s.panics \/ rest.panics THEN Panic
                               ELSE Ret(<<s.val>> \o rest.val)

\* anyTrigger.String
AnyString(a) ==
    LET strs == ActiveStrings(a, 1)
    IN  IF strs.panics THEN Panic
        ELSE Ret("Any(" \o Join(strs.val, ",") \o ")")

\* allTrigger.String
AllString(a) ==
    LET strs == ActiveStrings(a, 1)
    IN  IF strs.panics THEN Panic
        ELSE Ret("All(" \o Join(strs.val, ",") \o ")")

\* Trigger.String
String(t) ==
    CASE t.kind = "predicate" -> PredicateString(t)
      [] t.kind = "predicate2" -> Predicate2String(t)
      [] t.kind = "any" -> AnyString(t.kids)
      [] t.kind = "all" -> AllString(t.kids)
      [] t.kind = "failing" -> Ret("")

RECURSIVE Observed(_, _)

\* Observed as it would be if a predicate2Trigger kept its first entry as
\* last instead of shifting cur into last.
ObservedKeepsFirst(t, e) ==
    CASE t.kind \in {"predicate", "failing"} -> [t EXCEPT !.cur = Ref(e)]
      [] t.kind = "predicate2" ->
            [t EXCEPT !.last = IF t.last = Nil THEN t.cur ELSE t.last,
                      !.cur = Ref(e)]
      [] OTHER -> [t EXCEPT !.kids = [k \in 1..Len(t.kids) |-> Observed(t.kids[k], e)]]

\* predicateTrigger.Observe, predicate2Trigger.Observe, anyTrigger.Observe
\* and allTrigger.Observe: the tree after Observe(e).
Observed(t, e) ==
    CASE t.kind \in {"predicate", "failing"} -> [t EXCEPT !.cur = Ref(e)]
      [] t.kind = "predicate2" -> [t EXCEPT !.last = t.cur, !.cur = Ref(e)]
      [] OTHER -> [t EXCEPT !.kids = [k \in 1..Len(t.kids) |-> Observed(t.kids[k], e)]]

\* errs.record as it would be if it kept the first failure only.
recordFirst(errs, e) ==
    IF e = Nil \/ errs /= <<>> THEN errs ELSE Append(errs, e)

\* errs.record: errs is the slice e.errs.
record(errs, e) ==
    IF e = Nil THEN errs ELSE Append(errs, e)

\* errs.err
errsErr(errs) ==
    IF Len(errs) = 0 THEN Nil
    ELSE Ref(Join([i \in 1..Len(errs) |-> errs[i][1]], ","))

\* The value returned by Observe(e): nil from a leaf of the package, the
\* joined failures of the children from Any and All (the loop of lines
\* 28-30 and 57-59 from child i on, errs being what was recorded so far).
RECURSIVE ObserveErr(_, _), ObserveFrom(_, _, _, _)
ObserveFrom(a, i, e, errs) ==
    IF i > Len(a) THEN errsErr(errs)
    ELSE ObserveFrom(a, i + 1, e, record(errs, ObserveErr(a[i], e)))

ObserveErr(t, e) ==
    CASE t.kind \in {"predicate", "predicate2"} -> Nil
      [] t.kind = "failing" -> IF e.Value \in t.bad THEN Ref(t.name) ELSE Nil
      [] OTHER -> ObserveFrom(t.kids, 1, e, <<>>)

\* Trigger.Observe on the root of the tree.
Observe(e) ==
    /\ trig' = Observed(trig, e)
    /\ obsErr' = ObserveErr(trig, e)
    /\ lastObs' = IF lastObs = <<>> THEN <<e>> ELSE <<lastObs[Len(lastObs)], e>>

(***************************************************************************)
(* The inputs of the trigger tree.                                         *)
(***************************************************************************)
MaxKids == 2        \* children of a combinator

ObservedEntries == [Time : {0, 300}, Value : {90, 130, 145, 150}, Dir : {None, Flat}]

LeafTriggers ==
    {Above(100), Below(140), Arrow(<<Flat, None>>),
     Delta(0 - 2), Delta(0), Delta(2)}

ChildTriggers == LeafTriggers \cup {anyTrigger(<<>>), allTrigger(<<>>)}

Triggers ==
    LeafTriggers
        \cup {anyTrigger(kids) : kids \in SeqsUpTo(ChildTriggers, MaxKids)}
        \cup {allTrigger(kids) : kids \in SeqsUpTo(ChildTriggers, MaxKids)}

NoRun == [polls |-> 0, expired |-> 0, cancels |-> 0]

TriggerInit ==
    /\ PollerAt(0, NoRun)
    /\ trig \in Triggers
    /\ lastObs = <<>>
    /\ obsErr = Nil

TriggerObserve ==
    /\ \E e \in ObservedEntries : Observe(e)
    /\ UNCHANGED pollerVars

TriggerNext == TriggerObserve

TriggerSpec == TriggerInit /\ [][TriggerNext]_vars

\* Combinators over children of which some fail to observe some entries.
FailingKids ==
    {FailingTrigger("a", {90}), FailingTrigger("b", {90, 130}), Above(100),
     anyTrigger(<<FailingTrigger("a", {90}), FailingTrigger("b", {90, 130})>>)}

FailingTriggers ==
    {anyTrigger(kids) : kids \in SeqsUpTo(FailingKids, MaxKids)}
        \cup {allTrigger(kids) : kids \in SeqsUpTo(FailingKids, MaxKids)}

FailingInit ==
    /\ PollerAt(0, NoRun)
    /\ trig \in FailingTriggers
    /\ lastObs = <<>>
    /\ obsErr = Nil

FailingSpec == FailingInit /\ [][TriggerNext]_vars

(***************************************************************************)
(* The claims about the poller.                                            *)
(***************************************************************************)
\* C1: whatever the batches hold, the events sent downstream are strictly
\* ascending in timestamp.
C1_EmittedStrictlyAscending == StrictlyAscending(out)

\* C2: one call of Tail makes at most 5 requests, also when every request
\* is answered "expired" and every login succeeds.
C2_AtMostFiveAttempts == attempts <= GiveUpTries

\* C3: as long as every batch returned by Tail was strictly ascending, the
\* events sent downstream are strictly ascending: a poll that overlaps
\* earlier polls sends no timestamp again.
C3_NoReEmission == ascending => StrictlyAscending(out)

\* A poll whose batch repeats a timestamp sent by an earlier poll, passed it
\* over and sent a newer one.
C3_Witness ==
    /\ ascending
    /\ pc = "range"
    /\ sent >= 1
    /\ Len(out) > sent
    /\ \E k \in 1..(idx - 1) : \E m \in 1..(Len(out) - sent) :
          ents[k].Time = out[m].Time

\* C4: the penalty is within 0..10 s; between polls it is min(n, 10) s for
\* n the number of consecutive polls without a new event (so 0 at start
\* and after a poll that sent an event, one more per empty poll, 10 at the
\* cap); the wait slept before a poll is min(n, 10) s.
C4_Backoff ==
    /\ penalty \in 0..(PenaltyCap * Second)
    /\ pc \in {"loop", "etaWait", "penaltyWait"}
          => penalty = Min(emptyRun, PenaltyCap) * Second
    /\ pc \in {"request", "refresh", "returned", "range"}
          => /\ waited = Min(emptyRun, PenaltyCap) * Second
             /\ penalty = Min(emptyRun + 1, PenaltyCap) * Second

\* The penalty stayed at the cap over an eleventh empty poll.
C4_Witness == pc = "loop" /\ emptyRun = PenaltyCap + 1 /\ penalty = PenaltyCap * Second

\* C5: out is closed exactly when Stream has ended, once, and only after
\* Tail returned an error; nothing is sent after the close; while no call
\* of Tail fails, out stays open.
C5_EndOfStream ==
    /\ [](/\ closed \in {0, 1}
          /\ closed = 1 <=> pc = "done"
          /\ closed = 1 => err
          /\ ~err => closed = 0)
    /\ [][closed >= 1 => (out' = out /\ closed' = closed)]_vars

\* The stream ended after events had been delivered.
C5_Witness == closed = 1 /\ Len(out) > 0 /\ pc = "done"

\* C6: a body with a malformed timestamp at any position makes Tail fail;
\* a failed call of Tail returns no entries; Stream then sends nothing from
\* that batch, calls Tail no more and closes out.
C6_AllOrNothing ==
    /\ [](/\ badAt /= {} => err
          /\ err => (ents = <<>> /\ sent = 0)
          /\ (err /\ pc = "done") => closed = 1)
    /\ [][err => (pc' = "done" /\ out' = out /\ pollsLeft' = pollsLeft)]_vars

\* Tail failed on a body whose malformed record comes after a well-formed
\* one, after earlier polls had delivered events.
C6_Witness ==
    /\ pc = "done"
    /\ err
    /\ badAt = {2}
    /\ Len(out) > 0

\* C7: once cancellation has been requested (during the eta wait or the
\* penalty wait), Tail is not called again and nothing more is sent.
C7_CancelStopsPoller ==
    [][cancelRequested => (pollsLeft' = pollsLeft /\ out' = out)]_vars

\* The greatest timestamp among the events es.
MaxTime(es) ==
    CHOOSE t \in {es[k].Time : k \in 1..Len(es)} :
        \A k \in 1..Len(es) : es[k].Time <= t

\* The end of a poll: the step from the range loop back to the top.
EndOfPoll == pc = "range" /\ pc' = "loop"

\* The fetch is issued: the step that calls Tail.
FetchIssued == pc = "penaltyWait" /\ pc' = "request"

\* C16: begin (the cursor) and eta change only at the end of a poll that
\* sent an event; right after such a poll begin is the greatest timestamp
\* sent so far and eta is begin + 5 minutes; a poll that sent nothing
\* leaves both as they were; begin never decreases.
C16_CursorEtaUpdate ==
    [][/\ (begin' /= begin \/ eta' /= eta) => (EndOfPoll /\ sent >= 1)
       /\ (EndOfPoll /\ sent >= 1) =>
              (begin' = MaxTime(out) /\ eta' = begin' + FiveMinutes)
       /\ (EndOfPoll /\ sent = 0) => (begin' = begin /\ eta' = eta)
       /\ begin' >= begin]_vars

\* C17: Tail is never called while now < eta; the first call comes at the
\* start without any wait; once events were sent, no call comes before
\* the newest timestamp sent plus 5 minutes; each call comes after a sleep
\* of the penalty as it was before the call.
C17_PollScheduling ==
    [][FetchIssued =>
          /\ now' >= eta
          /\ now' = now + penalty
          /\ waited' = penalty
          /\ (out = <<>> /\ emptyRun = 0) => now' = StartNow
          /\ out /= <<>> => now' >= MaxTime(out) + FiveMinutes]_vars

\* C18: a request answered "expired" leads to the refresh and to nothing
\* else; the refresh either logs in once (a new token) and Tail goes on to
\* its next request, which carries the new token, exactly one login after
\* the request before, or fails, and then Tail returns the error without
\* another request; the token changes in the refresh only.
C18_ReauthStep ==
    [][/\ pc = "refresh" =>
              /\ attempts' = attempts
              /\ \/ token' = token + 1 /\ pc' = "request"
                 \/ token' = token /\ pc' = "returned" /\ err'
       /\ token' /= token => pc = "refresh"
       /\ pc' = "refresh" => (pc = "request" /\ attempts' = attempts + 1)
       /\ (pc = "request" /\ attempts >= 1 /\ attempts' = attempts + 1) =>
              (reqToken' = token /\ token = reqToken + 1)]_vars

\* Tail succeeded with its second request, made with the token of the one
\* login that followed the first.
C18_Witness ==
    /\ pc = "returned"
    /\ ~err
    /\ attempts = 2
    /\ token = 1
    /\ reqToken = 1
    /\ Len(ents) > 0

\* The entries of es after the cursor, in order.
RECURSIVE NewOnes(_, _)
NewOnes(es, cursor) ==
    IF es = <<>> THEN <<>>
    ELSE (IF IsNew(es[1], cursor) THEN <<es[1]>> ELSE <<>>)
             \o NewOnes(Tail(es), cursor)

\* The range loop went through the whole batch and every entry of it after
\* the cursor is on out, in order, as the latest events sent.
BatchDelivered ==
    /\ pc = "range"
    /\ idx > Len(ents)
    /\ sent = Len(NewOnes(ents, begin))
    /\ SubSeq(out, Len(out) - sent + 1, Len(out)) = NewOnes(ents, begin)

\* C20: in a run in which no call of Tail fails (and the consumer receives,
\* the sleeps return and the upstream answers: Fairness), the poller does not
\* stall: as long as the run may call Tail again, it does; and every batch
\* Tail returns is delivered, every entry after the cursor sent on out,
\* before Tail is called again.
C20_Progress ==
    ([]~err) =>
        /\ \A n \in 1..MaxLivePolls :
               (pollsLeft = n) ~> (pollsLeft = n - 1 /\ pc = "request")
        /\ \A n \in 0..MaxLivePolls :
               (pc = "returned" /\ pollsLeft = n) ~> (BatchDelivered /\ pollsLeft = n)

\* A batch of two new entries was delivered by the second call of Tail or a
\* later one.
C20_Witness ==
    /\ BatchDelivered
    /\ sent = 2
    /\ ~err
    /\ pollsLeft <= MaxLivePolls - 2
    /\ emptyRun >= 1

(***************************************************************************)
(* The claims about the triggers.                                          *)
(***************************************************************************)
\* The nodes of a tree.
RECURSIVE Nodes(_)
Nodes(t) ==
    IF t.kind \in {"any", "all"}
    THEN {t} \cup UNION {Nodes(t.kids[k]) : k \in 1..Len(t.kids)}
    ELSE {t}

LatestObs == lastObs[Len(lastObs)]

IsActive(t) == ~Active(t).panics /\ Active(t).val

\* C8: after one or more observations, Above(t) is active iff the latest
\* value is > t and then describes "<value> > <t>", Below(t) is active iff
\* the latest value is < t, and Arrow(set) is active iff the latest trend is
\* in the set.
C8_SingleEntryLatestOnly ==
    \A t \in Nodes(trig) :
        (t.kind = "predicate" /\ Len(lastObs) >= 1) =>
            LET a == PredicateActive(t)
                d == PredicateString(t)
            IN  /\ ~a.panics
                /\ t.p.fn = "Above" =>
                      /\ a.val <=> LatestObs.Value > t.p.arg
                      /\ (LatestObs.Value = 150 /\ t.p.arg = 100) => d.val = "150 > 100"
                /\ t.p.fn = "Below" => (a.val <=> LatestObs.Value < t.p.arg)
                /\ t.p.fn = "Arrow" =>
                      (a.val <=> \E k \in 1..Len(t.p.arg) : t.p.arg[k] = LatestObs.Dir)

\* C9: after two or more observations, Delta(d) is active iff the rate from
\* the previous event to the latest one, 60 * dv / dt per minute, has the
\* sign of d and lies beyond d; stated without division, by the sign of dt
\* (a zero dt makes the rate infinite, or not a number when dv is zero too).
\* So Delta(0) is never active, Delta(-2) is active for (0, 150), (5 min,
\* 130) and inactive for (0, 150), (5 min, 145).
C9_RateOfChange ==
    \A t \in Nodes(trig) :
        (t.kind = "predicate2" /\ Len(lastObs) = 2) =>
            LET dv == lastObs[2].Value - lastObs[1].Value
                dt == lastObs[2].Time - lastObs[1].Time
                d == t.p.arg
                act == Predicate2Active(t).val
            IN  /\ dt > 0 => (act <=> \/ (dv < 0 /\ d < 0 /\ 60 * dv < d * dt)
                                      \/ (dv > 0 /\ d > 0 /\ 60 * dv > d * dt))
                /\ dt < 0 => (act <=> \/ (dv > 0 /\ d < 0 /\ 60 * dv > d * dt)
                                      \/ (dv < 0 /\ d > 0 /\ 60 * dv < d * dt))
                /\ dt = 0 => (act <=> \/ (dv < 0 /\ d < 0)
                                      \/ (dv > 0 /\ d > 0))
                /\ d = 0 => ~act
                /\ (d = 0 - 2 /\ dt = 300 /\ lastObs[1].Value = 150) =>
                      /\ lastObs[2].Value = 130 => act
                      /\ lastObs[2].Value = 145 => ~act

\* Delta(-2) is active after (0, 150) and (5 min, 130).
C9_Witness ==
    /\ trig.kind = "predicate2"
    /\ trig.p.arg = 0 - 2
    /\ Len(lastObs) = 2
    /\ lastObs[1].Time = 0 /\ lastObs[1].Value = 150
    /\ lastObs[2].Time = 300 /\ lastObs[2].Value = 130
    /\ IsActive(trig)

\* C10: whenever Active() of a combinator returns, Any is active iff at
\* least one child is active and All is active iff every child is active;
\* for no children Any is inactive and All is active.
C10_CombinatorActivity ==
    \A t \in Nodes(trig) :
        /\ (t.kind = "any" /\ ~Active(t).panics) =>
              (Active(t).val <=> \E k \in 1..Len(t.kids) : IsActive(t.kids[k]))
        /\ (t.kind = "all" /\ ~Active(t).panics) =>
              (Active(t).val <=> \A k \in 1..Len(t.kids) : IsActive(t.kids[k]))

\* All(Above(100), Below(140)) is active after an observation between the
\* two thresholds.
C10_Witness ==
    /\ trig.kind = "all"
    /\ Len(trig.kids) = 2
    /\ trig.kids[1].kind = "predicate" /\ trig.kids[1].p = [fn |-> "Above", arg |-> 100]
    /\ trig.kids[2].kind = "predicate" /\ trig.kids[2].p = [fn |-> "Below", arg |-> 140]
    /\ Len(lastObs) >= 1
    /\ IsActive(trig)

\* The descriptions of the children of a combinator that are active now,
\* in child order.
RECURSIVE ActiveNow(_)
ActiveNow(kids) ==
    IF kids = <<>> THEN <<>>
    ELSE (IF IsActive(kids[1]) THEN <<String(kids[1]).val>> ELSE <<>>)
             \o ActiveNow(Tail(kids))

\* C11: whenever String() of a combinator returns, it is the combinator's
\* name around the comma-joined descriptions of exactly the children that
\* are active in the current state, in child order, whether or not the
\* combinator itself is active; a child that was active after an earlier
\* observation and is inactive after the latest one is not listed.
C11_DescriptionIsCurrent ==
    \A t \in Nodes(trig) :
        (t.kind \in {"any", "all"} /\ ~String(t).panics) =>
            /\ String(t).val =
                  (IF t.kind = "any" THEN "Any(" ELSE "All(")
                      \o Join(ActiveNow(t.kids), ",") \o ")"
            /\ (/\ Len(lastObs) = 2
                /\ Len(t.kids) = 2
                /\ t.kids[1] = [Above(100) EXCEPT !.cur = Ref(LatestObs)]
                /\ t.kids[2] = [Below(140) EXCEPT !.cur = Ref(LatestObs)]
                /\ lastObs[1].Value = 150
                /\ lastObs[2].Value = 90) =>
                   String(t).val = (IF t.kind = "any" THEN "Any(" ELSE "All(")
                                       \o "90 < 140)"

\* All(Above(100), Below(140)) observed 150 and then 90: the combinator is
\* inactive, Above(100), active after the first observation, is no longer
\* listed, and Below(140) is.
C11_Witness ==
    /\ trig.kind = "all"
    /\ Len(trig.kids) = 2
    /\ trig.kids[1].kind = "predicate" /\ trig.kids[1].p = [fn |-> "Above", arg |-> 100]
    /\ trig.kids[2].kind = "predicate" /\ trig.kids[2].p = [fn |-> "Below", arg |-> 140]
    /\ Len(lastObs) = 2
    /\ lastObs[1].Value = 150
    /\ lastObs[2].Value = 90
    /\ ~IsActive(trig)
    /\ String(trig) = Ret("All(90 < 140)")

\* The failures the children report for the latest entry, in child order.
RECURSIVE Failures(_)
Failures(kids) ==
    IF kids = <<>> THEN <<>>
    ELSE (IF ObserveErr(kids[1], LatestObs) /= Nil
          THEN <<ObserveErr(kids[1], LatestObs)[1]>> ELSE <<>>)
             \o Failures(Tail(kids))

\* C12: after Observe(e) on Any or All, every node of the tree holds e (the
\* entry went to every child, also past a child that failed), and the
\* result is nil iff no child failed and otherwise the failures of all the
\* failing children, in child order, joined by commas: "a,b" when both "a"
\* and "b" fail, "b" when only "b" fails, "a,b,a" for Any("a", "b") followed
\* by "a".
C12_FailuresAggregated ==
    (trig.kind \in {"any", "all"} /\ Len(lastObs) >= 1) =>
        /\ \A t \in Nodes(trig) :
               t.kind \in {"predicate", "failing"} => t.cur = Ref(LatestObs)
        /\ obsErr = Nil <=> \A k \in 1..Len(trig.kids) :
                               ObserveErr(trig.kids[k], LatestObs) = Nil
        /\ obsErr /= Nil => obsErr = Ref(Join(Failures(trig.kids), ","))
        /\ (/\ Len(trig.kids) = 2
            /\ trig.kids[1].kind = "failing" /\ trig.kids[1].name = "a"
            /\ trig.kids[2].kind = "failing" /\ trig.kids[2].name = "b") =>
               /\ LatestObs.Value = 90 => obsErr = Ref("a,b")
               /\ LatestObs.Value = 130 => obsErr = Ref("b")
               /\ LatestObs.Value = 150 => obsErr = Nil
        /\ (/\ Len(trig.kids) = 2
            /\ trig.kids[1].kind = "any"
            /\ trig.kids[2].kind = "failing" /\ trig.kids[2].name = "a"
            /\ LatestObs.Value = 90) => obsErr = Ref("a,b,a")

\* All("a", Above(100)) observed 90: "a" failed, Above(100) holds the entry
\* all the same, and the result is the failure "a".
C12_Witness ==
    /\ trig.kind = "all"
    /\ Len(trig.kids) = 2
    /\ trig.kids[1].kind = "failing" /\ trig.kids[1].name = "a"
    /\ trig.kids[2].kind = "predicate"
    /\ Len(lastObs) >= 1
    /\ LatestObs.Value = 90
    /\ trig.kids[2].cur = Ref(LatestObs)
    /\ obsErr = Ref("a")

\* C13: a Predicate2 trigger is inactive and describes as "" until two
\* events were observed; from then on it holds the event before the latest
\* as last and the latest as cur, and Active and String are the predicate
\* applied to (previous, latest) in that order.  With both events at the
\* same time the order decides: a rise of 60 makes Delta(2) active (+Inf),
\* the same pair taken backwards would not (-Inf).
C13_PairwiseHistory ==
    \A t \in Nodes(trig) :
        t.kind = "predicate2" =>
            /\ Len(lastObs) < 2 =>
                  /\ Predicate2Active(t) = Ret(FALSE)
                  /\ Predicate2String(t) = Ret("")
            /\ Len(lastObs) = 2 =>
                  /\ t.last = Ref(lastObs[1])
                  /\ t.cur = Ref(lastObs[2])
                  /\ Predicate2String(t) = Ret(Call2(t.p, lastObs[1], lastObs[2]))
                  /\ Predicate2Active(t) = Ret(Call2(t.p, lastObs[1], lastObs[2]) /= "")
                  /\ (/\ t.p.arg = 2
                      /\ lastObs[1].Time = lastObs[2].Time
                      /\ lastObs[1].Value = 90
                      /\ lastObs[2].Value = 150) =>
                         /\ Predicate2Active(t).val
                         /\ Call2(t.p, lastObs[2], lastObs[1]) = ""

\* Delta(2) after (0, 90) and (5 min, 150): active, 12 a minute.
C13_Witness ==
    /\ trig.kind = "predicate2"
    /\ trig.p.arg = 2
    /\ Len(lastObs) = 2
    /\ lastObs[1].Time = 0 /\ lastObs[1].Value = 90
    /\ lastObs[2].Time = 300 /\ lastObs[2].Value = 150
    /\ trig.last = Ref(lastObs[1])
    /\ trig.cur = Ref(lastObs[2])
    /\ Predicate2String(trig) = Ret("Delta(12.0 > 2.0")

\* C19: before any event was observed, Active() and String() of every node
\* of a tree built from Predicate, Predicate2, Any and All return (no
\* panic), and every leaf reports inactive.
C19_QueryBeforeObservation ==
    Len(lastObs) = 0 =>
        \A t \in Nodes(trig) :
            /\ ~Active(t).panics
            /\ ~String(t).panics
            /\ t.kind \in {"predicate", "predicate2"} => Active(t) = Ret(FALSE)

(***************************************************************************)
(* The claims about Session.Tail alone.                                    *)
(***************************************************************************)
\* C14: for every record whose trend code is outside 0..9, Tail either
\* fails or returns for it an entry whose Dir is NotComputable or
\* RateOutOfRange, never an ordinary trend such as None.
C14_UnknownTrendNotForwarded ==
    pc = "returned" =>
        \A k \in 1..Len(body) :
            body[k].Trend \notin None..RateOutOfRange =>
                \/ err
                \/ ents[Len(body) - k + 1].Dir \in {NotComputable, RateOutOfRange}

\* The millisecond timestamp of a record that parses.
Msecs(ej) == ParseInt(FindStringSubmatch(ej.WT)[2]).val

\* C15: for every body that lists its records newest first, with strictly
\* decreasing millisecond timestamps, a successful Tail returns as many
\* entries as there are records, in exactly the reverse order, with
\* strictly ascending timestamps.
C15_ReversedAscending ==
    (/\ pc = "returned"
     /\ ~err
     /\ \A k \in 1..(Len(body) - 1) : Msecs(body[k]) > Msecs(body[k + 1])) =>
        /\ Len(ents) = Len(body)
        /\ \A k \in 1..Len(body) : ents[k] = EntryOf(body[Len(body) - k + 1])
        /\ StrictlyAscending(ents)

====
